---- MODULE Spec2Model ----
(***************************************************************************)
(* A model of the task store of task_manager.py: the Task entity, its      *)
(* JSON serialization, the TaskManager store with its persistence file     *)
(* and its queries, and the handlers of TaskManagerApp that list, export,  *)
(* back up, clear and reset the store.                                     *)
(*                                                                         *)
(* Python values are represented as follows.                               *)
(*   datetime            a natural number (a reading of the clock)         *)
(*   None (a datetime)   None, the integer -1                              *)
(*   JSON text of a date <<"iso", t>>; JSON null is NullText, <<>>;        *)
(*                       any other text is <<"garbage">>                   *)
(*   user date text      <<sep, wellFormed, day>>, sep the separator it    *)
(*                       contains; the empty text / None is NoText         *)
(*   enum member         its member name ("LOW", "IN_PROGRESS", ...)       *)
(*   dict                a function from its keys                          *)
(*   file                [kind |-> "absent"], or [kind |-> k, ...] with k  *)
(*                       what reading and parsing the bytes produces       *)
(*   file name           <<stem, t>>, t the time in a generated name       *)
(*   str compared or     the sequence of its code points                   *)
(*   lowered                                                               *)
(*   float a / b         the fraction <<a, b>>; the int 0 is <<0, 1>>      *)
(***************************************************************************)
EXTENDS Integers, Sequences, FiniteSets, TLC

VARIABLES
    tasks,      \* TaskManager.tasks: sequence of Task records
    next_id,    \* TaskManager.next_id
    disk,       \* the contents of TaskManager.filename
    now,        \* the wall clock read by datetime.datetime.now()
    pc,         \* "running"; "crashed" when an exception left the constructor;
                \* "stopped" before the program is started
    last,       \* the last operation as its caller observes it, see Record
    issued,     \* history: every id add_task has ever assigned
    wfails      \* history: how many writes of the file have failed

vars == <<tasks, next_id, disk, now, pc, last, issued, wfails>>

\* ------------------------------------------------------------------ bounds
MaxId == 3              \* Add is taken while next_id <= MaxId
MaxClockId == 1         \* the same where the clock runs (SpecClock)
MaxIOId == 2            \* the same where writes can fail (SpecIO)
MaxClock == 1           \* the clock stops at MaxClock
MaxWriteFailures == 1   \* at most this many writes of the file fail
MaxQueryId == 2         \* Add is taken while next_id <= MaxQueryId (SpecQuery)
MaxViewId == 3          \* Add is taken while next_id <= MaxViewId (SpecView)
MaxExportId == 2        \* Add is taken while next_id <= MaxExportId (SpecExport)

\* ------------------------------------------------------------ Python values
None == 0 - 1
NullText == <<>>
NoText == <<>>
IsoText(t) == <<"iso", t>>
GarbageText == <<"garbage">>

Has(d, k) == k \in DOMAIN d
Get(d, k, default) == IF Has(d, k) THEN d[k] ELSE default

\* ------------------------------------------------------------------- enums
PriorityValue == [LOW |-> "Low", MEDIUM |-> "Medium", HIGH |-> "High", URGENT |-> "Urgent"]

StatusValue ==
    [PENDING |-> "Pending", IN_PROGRESS |-> "In Progress",
     COMPLETED |-> "Completed", CANCELLED |-> "Cancelled"]

Priorities == DOMAIN PriorityValue
Statuses == DOMAIN StatusValue

\* Priority(value) and Status(value): the member with that value; a value of
\* no member raises ValueError, modelled as the result "ValueError".
PriorityOf(value) ==
    IF \E p \in Priorities : PriorityValue[p] = value
    THEN CHOOSE p \in Priorities : PriorityValue[p] = value
    ELSE "ValueError"

StatusOf(value) ==
    IF \E s \in Statuses : StatusValue[s] = value
    THEN CHOOSE s \in Statuses : StatusValue[s] = value
    ELSE "ValueError"

\* -------------------------------------------------------------------- Task
\* datetime.isoformat and datetime.fromisoformat
isoformat(t) == IsoText(t)

IsIsoText(s) == Len(s) = 2 /\ s[1] = "iso"

fromisoformat(s) == IF IsIsoText(s) THEN s[2] ELSE None

\* Task._parse_date: '-' selects %Y-%m-%d, '/' selects %d/%m/%Y, a ValueError
\* of strptime is swallowed, anything else is None.
parse_date(date_str) ==
    IF date_str[1] = "-" THEN (IF date_str[2] THEN date_str[3] ELSE None)
    ELSE IF date_str[1] = "/" THEN (IF date_str[2] THEN date_str[3] ELSE None)
    ELSE None

\* Task.__init__ with the task already started.
NewTask_InProgress(title, description, category, priority, due_date, t1, t2) ==
    [id |-> None, title |-> title, description |-> description,
     category |-> category, priority |-> priority, status |-> "IN_PROGRESS",
     created_at |-> t1, updated_at |-> t2,
     due_date |-> IF due_date # NoText THEN parse_date(due_date) ELSE None,
     completed_at |-> None]

\* Task.__init__; t1 and t2 are the two readings of the clock.
NewTask(title, description, category, priority, due_date, t1, t2) ==
    [id |-> None,
     title |-> title,
     description |-> description,
     category |-> category,
     priority |-> priority,
     status |-> "PENDING",
     created_at |-> t1,
     updated_at |-> t2,
     due_date |-> IF due_date # NoText THEN parse_date(due_date) ELSE None,
     completed_at |-> None]

\* Task.update_status that stamps completed_at whatever the new status.
update_status_stamping(task, new_status, t1, t2) ==
    [task EXCEPT !.status = new_status,
                 !.updated_at = t1,
                 !.completed_at = t2]

\* Task.update_status that clears completed_at on leaving Completed.
update_status_clearing(task, new_status, t1, t2) ==
    [task EXCEPT !.status = new_status,
                 !.updated_at = t1,
                 !.completed_at = IF new_status = "COMPLETED" THEN t2 ELSE None]

\* Task.update_status; t1 and t2 are the two readings of the clock.
update_status(task, new_status, t1, t2) ==
    [task EXCEPT !.status = new_status,
                 !.updated_at = t1,
                 !.completed_at = IF new_status = "COMPLETED" THEN t2 ELSE @]

\* Task.is_overdue that does not look at the status.
is_overdue_any_status(task, t) ==
    IF task.due_date # None
    THEN t > task.due_date
    ELSE FALSE

\* Task.is_overdue at clock reading t.
is_overdue(task, t) ==
    IF task.due_date # None /\ task.status # "COMPLETED"
    THEN t > task.due_date
    ELSE FALSE

\* Task.to_dict that leaves completed_at out.
to_dict_drops_completed(task) ==
    [id |-> task.id,
     title |-> task.title,
     description |-> task.description,
     category |-> task.category,
     priority |-> PriorityValue[task.priority],
     status |-> StatusValue[task.status],
     created_at |-> isoformat(task.created_at),
     updated_at |-> isoformat(task.updated_at),
     due_date |-> IF task.due_date # None THEN isoformat(task.due_date) ELSE NullText,
     completed_at |-> NullText]

\* Task.to_dict
to_dict(task) ==
    [id |-> task.id,
     title |-> task.title,
     description |-> task.description,
     category |-> task.category,
     priority |-> PriorityValue[task.priority],
     status |-> StatusValue[task.status],
     created_at |-> isoformat(task.created_at),
     updated_at |-> isoformat(task.updated_at),
     due_date |-> IF task.due_date # None THEN isoformat(task.due_date) ELSE NullText,
     completed_at |-> IF task.completed_at # None THEN isoformat(task.completed_at)
                      ELSE NullText]

\* The exception Task.from_dict raises on data, "none" when it returns; the
\* order is the order in which the code evaluates.
from_dict_exc(data) ==
    IF ~Has(data, "title") THEN "KeyError"
    ELSE IF PriorityOf(Get(data, "priority", PriorityValue["MEDIUM"])) = "ValueError"
        THEN "ValueError"
    ELSE IF StatusOf(Get(data, "status", StatusValue["PENDING"])) = "ValueError"
        THEN "ValueError"
    ELSE IF ~Has(data, "created_at") THEN "KeyError"
    ELSE IF data["created_at"] = NullText THEN "TypeError"
    ELSE IF ~IsIsoText(data["created_at"]) THEN "ValueError"
    ELSE IF ~Has(data, "updated_at") THEN "KeyError"
    ELSE IF data["updated_at"] = NullText THEN "TypeError"
    ELSE IF ~IsIsoText(data["updated_at"]) THEN "ValueError"
    ELSE IF Get(data, "due_date", NullText) # NullText /\ ~IsIsoText(data["due_date"])
        THEN "ValueError"
    ELSE IF Get(data, "completed_at", NullText) # NullText
            /\ ~IsIsoText(data["completed_at"])
        THEN "ValueError"
    ELSE "none"

\* Task.from_dict without its assignment of task.status.
from_dict_keeps_pending(data) ==
    [id |-> Get(data, "id", None),
     title |-> data["title"],
     description |-> Get(data, "description", ""),
     category |-> Get(data, "category", "General"),
     priority |-> PriorityOf(Get(data, "priority", PriorityValue["MEDIUM"])),
     status |-> "PENDING",
     created_at |-> fromisoformat(data["created_at"]),
     updated_at |-> fromisoformat(data["updated_at"]),
     due_date |-> IF Get(data, "due_date", NullText) # NullText
                  THEN fromisoformat(data["due_date"]) ELSE None,
     completed_at |-> IF Get(data, "completed_at", NullText) # NullText
                      THEN fromisoformat(data["completed_at"]) ELSE None]

\* The Task that Task.from_dict returns when it raises nothing.
from_dict(data) ==
    [id |-> Get(data, "id", None),
     title |-> data["title"],
     description |-> Get(data, "description", ""),
     category |-> Get(data, "category", "General"),
     priority |-> PriorityOf(Get(data, "priority", PriorityValue["MEDIUM"])),
     status |-> StatusOf(Get(data, "status", StatusValue["PENDING"])),
     created_at |-> fromisoformat(data["created_at"]),
     updated_at |-> fromisoformat(data["updated_at"]),
     due_date |-> IF Get(data, "due_date", NullText) # NullText
                  THEN fromisoformat(data["due_date"]) ELSE None,
     completed_at |-> IF Get(data, "completed_at", NullText) # NullText
                      THEN fromisoformat(data["completed_at"]) ELSE None]

\* ------------------------------------------------------------- persistence
Absent == [kind |-> "absent"]
Garbage == [kind |-> "garbage"]          \* text that is not JSON (also a cut-off write)
Undecodable == [kind |-> "undecodable"]  \* bytes that are not UTF-8
JsonArray == [kind |-> "array"]          \* JSON whose top level is no object
Unreadable == [kind |-> "unreadable"]    \* exists, but open() or read() fails
JsonObject(data) == [kind |-> "object", data |-> data]

\* The document save_tasks builds.
SaveDoc(ts, nid) ==
    JsonObject([tasks |-> [i \in 1..Len(ts) |-> to_dict(ts[i])], next_id |-> nid])

\* What the file holds after save_tasks, by the outcome w of the write:
\* open() fails and the file is as it was, or the write stops part-way.
WriteOutcomes == {"ok", "open_fails", "write_fails"}

\* save_tasks that opens the file for exclusive creation: an existing file
\* is never rewritten.
save_tasks_exclusive(file, ts, nid, w) ==
    CASE w = "ok" -> IF file.kind = "absent" THEN SaveDoc(ts, nid) ELSE file
      [] w = "open_fails" -> file
      [] w = "write_fails" -> Garbage

save_tasks(file, ts, nid, w) ==
    CASE w = "ok" -> SaveDoc(ts, nid)
      [] w = "open_fails" -> file
      [] w = "write_fails" -> Garbage

\* What the with-block of save_tasks raises, by the outcome of the write.
SaveRaises(w) ==
    CASE w = "ok" -> "none"
      [] w = "open_fails" -> "PermissionError"
      [] w = "write_fails" -> "OSError"

\* The classes `except Exception` catches, among those raised here.
Exceptions ==
    {"JSONDecodeError", "KeyError", "FileNotFoundError", "PermissionError",
     "OSError", "TypeError", "ValueError", "UnicodeDecodeError"}

\* save_tasks with the except clause of load_tasks.
save_tasks_exc_narrow(w) ==
    IF SaveRaises(w) \in {"JSONDecodeError", "KeyError", "FileNotFoundError"}
    THEN "none" ELSE SaveRaises(w)

\* The exception that leaves save_tasks, "none" when it returns.
save_tasks_exc(w) == IF SaveRaises(w) \in Exceptions THEN "none" ELSE SaveRaises(w)

\* File names: TaskManager.filename, and the names export_tasks and
\* backup_tasks make from the reading t of the clock.
Filename == <<"tasks", None>>

\* An export that is written to the file of the store.
ExportNameIsFilename(t) == Filename

ExportName(t) == <<"tasks_export", t>>

BackupName(t) == <<"tasks_backup", t>>

\* The file of the store after content was written to the file called name.
AfterWrite(file, name, content) == IF name = Filename THEN content ELSE file

\* The first exception the list comprehension of load_tasks raises.
FirstExc(recs) ==
    IF \E i \in 1..Len(recs) : from_dict_exc(recs[i]) # "none"
    THEN from_dict_exc(recs[CHOOSE i \in 1..Len(recs) :
            /\ from_dict_exc(recs[i]) # "none"
            /\ \A j \in 1..(i - 1) : from_dict_exc(recs[j]) = "none"])
    ELSE "none"

\* The exception raised inside the try block of load_tasks, "none" if none.
load_exc(file) ==
    CASE file.kind = "absent" -> "none"
      [] file.kind = "garbage" -> "JSONDecodeError"
      [] file.kind = "undecodable" -> "UnicodeDecodeError"
      [] file.kind = "array" -> "TypeError"
      [] file.kind = "unreadable" -> "PermissionError"
      [] file.kind = "object" ->
            IF ~Has(file.data, "tasks") THEN "KeyError"
            ELSE FirstExc(file.data["tasks"])

Caught == {"JSONDecodeError", "KeyError", "FileNotFoundError"}

\* load_tasks that does not read next_id back.
load_tasks_forget(file) ==
    LET e == load_exc(file) IN
    IF e = "none" /\ file.kind = "object"
    THEN [tasks |-> [i \in 1..Len(file.data["tasks"]) |-> from_dict(file.data["tasks"][i])],
          next_id |-> 1,
          exc |-> "none", reported |-> FALSE]
    ELSE [tasks |-> <<>>, next_id |-> 1,
          exc |-> IF e \in Caught THEN "none" ELSE e,
          reported |-> e \in Caught]

\* TaskManager.__init__ followed by load_tasks: the store it leaves and the
\* exception that reaches the caller ("none" when it returns).
load_tasks(file) ==
    LET e == load_exc(file) IN
    IF e = "none" /\ file.kind = "object"
    THEN [tasks |-> [i \in 1..Len(file.data["tasks"]) |-> from_dict(file.data["tasks"][i])],
          next_id |-> Get(file.data, "next_id", 1),
          exc |-> "none", reported |-> FALSE]
    ELSE [tasks |-> <<>>, next_id |-> 1,
          exc |-> IF e \in Caught THEN "none" ELSE e,
          reported |-> e \in Caught]

\* ----------------------------------------------------------------- helpers
\* get_task that looks at the first task only.
get_task_first(ts, task_id) == IF ts # <<>> /\ ts[1].id = task_id THEN 1 ELSE 0

\* TaskManager.get_task: the index of the first task with that id, 0 if none.
get_task(ts, task_id) ==
    IF \E i \in 1..Len(ts) : ts[i].id = task_id
    THEN CHOOSE i \in 1..Len(ts) :
            /\ ts[i].id = task_id
            /\ \A j \in 1..(i - 1) : ts[j].id # task_id
    ELSE 0

\* list.pop() in place of list.remove: the last element goes.
RemoveLast(ts, i) == [j \in 1..(Len(ts) - 1) |-> ts[j]]

\* list.remove of the element at index i.
RemoveAt(ts, i) == [j \in 1..(Len(ts) - 1) |-> IF j < i THEN ts[j] ELSE ts[j + 1]]

\* The filter that also drops cancelled tasks.
FilterActive(ts) == SelectSeq(ts, LAMBDA t : t.status \notin {"COMPLETED", "CANCELLED"})

\* [t for t in ts if t.status != Status.COMPLETED]
RECURSIVE FilterNotCompleted(_)
FilterNotCompleted(ts) ==
    IF ts = <<>> THEN <<>>
    ELSE IF Head(ts).status # "COMPLETED"
         THEN <<Head(ts)>> \o FilterNotCompleted(Tail(ts))
         ELSE FilterNotCompleted(Tail(ts))

\* TaskManager.get_tasks_by_status
get_tasks_by_status(ts, status) == SelectSeq(ts, LAMBDA task : task.status = status)

\* TaskManager.get_overdue_tasks at clock reading t (the clock is read once
\* for each task; the readings of one call are taken to be the same).
get_overdue_tasks(ts, t) == SelectSeq(ts, LAMBDA task : is_overdue(task, t))

\* a / b as the fraction <<a, b>>; with b = 0 the division raises
\* ZeroDivisionError.  q * k multiplies such a fraction.
Quotient(a, b) == <<a, b>>

Times(q, k) == <<q[1] * k, q[2]>>

\* get_statistics that divides whatever the total is.
get_statistics_unguarded(ts, t) ==
    LET total == Len(ts)
        completed == Len(get_tasks_by_status(ts, "COMPLETED"))
    IN  [total |-> total,
         completed |-> completed,
         pending |-> Len(get_tasks_by_status(ts, "PENDING")),
         in_progress |-> Len(get_tasks_by_status(ts, "IN_PROGRESS")),
         overdue |-> Len(get_overdue_tasks(ts, t)),
         completion_rate |-> Times(Quotient(completed, total), 100)]

\* TaskManager.get_statistics at clock reading t; the int 0 is <<0, 1>>.
get_statistics(ts, t) ==
    LET total == Len(ts)
        completed == Len(get_tasks_by_status(ts, "COMPLETED"))
    IN  [total |-> total,
         completed |-> completed,
         pending |-> Len(get_tasks_by_status(ts, "PENDING")),
         in_progress |-> Len(get_tasks_by_status(ts, "IN_PROGRESS")),
         overdue |-> Len(get_overdue_tasks(ts, t)),
         completion_rate |-> IF total > 0 THEN Times(Quotient(completed, total), 100)
                             ELSE <<0, 1>>]

\* The code points of the category labels used here.
CategoryChars ==
    [Work |-> <<87, 111, 114, 107>>,
     work |-> <<119, 111, 114, 107>>,
     WORK |-> <<87, 79, 82, 75>>,
     Works |-> <<87, 111, 114, 107, 115>>,
     General |-> <<71, 101, 110, 101, 114, 97, 108>>,
     general |-> <<103, 101, 110, 101, 114, 97, 108>>]

Categories == DOMAIN CategoryChars

\* A lower() that leaves the text as it is.
lower_nothing(chars) == chars

\* str.lower on such a text: 'A'..'Z' become 'a'..'z'.
lower(chars) ==
    [i \in DOMAIN chars |-> IF chars[i] \in 65..90 THEN chars[i] + 32 ELSE chars[i]]

\* TaskManager.get_tasks_by_category
get_tasks_by_category(ts, category) ==
    SelectSeq(ts, LAMBDA task :
        lower(CategoryChars[task.category]) = lower(CategoryChars[category]))

\* The code points of the values of Priority, and str < str: the first
\* differing code point decides, a proper prefix is smaller.
CodePoints ==
    [Low |-> <<76, 111, 119>>,
     Medium |-> <<77, 101, 100, 105, 117, 109>>,
     High |-> <<72, 105, 103, 104>>,
     Urgent |-> <<85, 114, 103, 101, 110, 116>>]

RECURSIVE StrLess(_, _)
StrLess(a, b) ==
    IF b = <<>> THEN FALSE
    ELSE IF a = <<>> THEN TRUE
    ELSE IF Head(a) # Head(b) THEN Head(a) < Head(b)
    ELSE StrLess(Tail(a), Tail(b))

\* datetime.datetime.max, the year 9999: later than every reading of the
\* clock and every due date.
DatetimeMax == 9999

\* A sort key that orders the priorities by severity.
sort_key_by_severity(task) ==
    <<CASE task.priority = "LOW" -> <<1>>
        [] task.priority = "MEDIUM" -> <<2>>
        [] task.priority = "HIGH" -> <<3>>
        [] task.priority = "URGENT" -> <<4>>,
      IF task.due_date # None THEN task.due_date ELSE DatetimeMax>>

\* lambda t: (t.priority.value, t.due_date or datetime.datetime.max)
sort_key(task) ==
    <<CodePoints[PriorityValue[task.priority]],
      IF task.due_date # None THEN task.due_date ELSE DatetimeMax>>

\* tuple < tuple on two such keys
KeyLess(k1, k2) == StrLess(k1[1], k2[1]) \/ (k1[1] = k2[1] /\ k1[2] < k2[2])

\* sorted(ts, key=sort_key): the stable sort, as the insertion of each task,
\* in order, behind the tasks whose key is not greater.
RECURSIVE InsertByKey(_, _)
InsertByKey(task, ts) ==
    IF ts = <<>> THEN <<task>>
    ELSE IF KeyLess(sort_key(task), sort_key(Head(ts))) THEN <<task>> \o ts
    ELSE <<Head(ts)>> \o InsertByKey(task, Tail(ts))

RECURSIVE sorted(_)
sorted(ts) ==
    IF ts = <<>> THEN <<>>
    ELSE InsertByKey(ts[Len(ts)], sorted(SubSeq(ts, 1, Len(ts) - 1)))

\* The readings a second call of now() can return after a first returned t.
Later(t) == {t2 \in t..(t + 1) : t2 <= MaxClock}

\* What the caller observes of an operation: its name, what it returned (for
\* add_task "task", and task is the id of the Task returned), the exception
\* that reached the caller, how often it called save_tasks and whether that
\* write failed.
Record(op, ret, exc, saves, w) ==
    [op |-> op, ret |-> ret, task |-> None, exc |-> exc, saves |-> saves,
     wfail |-> (saves > 0 /\ w # "ok")]

\* ------------------------------------------------------------------ inputs
\* What add_task is called with: the defaults of its optional parameters,
\* and a task of another category and priority with a due date.
DefaultInput ==
    [title |-> "Buy milk", description |-> "", category |-> "General",
     priority |-> "MEDIUM", due_date |-> NoText]

DatedInput ==
    [title |-> "Report", description |-> "", category |-> "Work",
     priority |-> "URGENT", due_date |-> <<"-", TRUE, 0>>]

AddInputs == {DatedInput}
AddInputsClock == {DefaultInput, DatedInput}

\* The outcomes of a write in a run where writes can fail: no more than
\* MaxWriteFailures of them do.
Outcomes == IF wfails < MaxWriteFailures THEN WriteOutcomes ELSE {"ok"}

\* The ids an operation is called with: those of the tasks in the store,
\* every smaller one, and next_id, which no task has yet.
TaskIds == (0..next_id) \cup {tasks[i].id : i \in {j \in 1..Len(tasks) : tasks[j].id >= 0}}

\* ------------------------------------------------------------------- state
\* The store constructed where there is no file, when the clock reads
\* MaxClock: every later reading of the clock is the same.
Init ==
    /\ disk = Absent
    /\ tasks = load_tasks(Absent).tasks
    /\ next_id = load_tasks(Absent).next_id
    /\ now = MaxClock
    /\ pc = "running"
    /\ last = Record("Load", "none", "none", 0, "ok")
    /\ issued = {}
    /\ wfails = 0

\* The counter left as it is.
IncrementIdSkipped(nid) == nid

\* self.next_id += 1
IncrementId(nid) == nid + 1

\* TaskManager.add_task
add_task(inp, t2, w) ==
    LET task == [NewTask(inp.title, inp.description, inp.category, inp.priority,
                         inp.due_date, now, t2) EXCEPT !.id = next_id]
    IN  /\ pc = "running"
        /\ tasks' = Append(tasks, task)
        /\ next_id' = IncrementId(next_id)
        /\ disk' = save_tasks(disk, tasks', next_id', w)
        /\ now' = t2
        /\ last' = [Record("Add", "task", save_tasks_exc(w), 1, w) EXCEPT !.task = task.id]
        /\ issued' = issued \cup {task.id}
        /\ wfails' = IF w = "ok" THEN wfails ELSE wfails + 1
        /\ UNCHANGED pc

Add ==
    /\ next_id <= MaxId
    /\ \E inp \in AddInputs, t2 \in Later(now) : add_task(inp, t2, "ok")

AddClock ==
    /\ next_id <= MaxClockId
    /\ \E inp \in AddInputsClock, t2 \in Later(now) : add_task(inp, t2, "ok")

AddIO ==
    /\ next_id <= MaxIOId
    /\ \E inp \in AddInputs, t2 \in Later(now), w \in Outcomes : add_task(inp, t2, w)

\* TaskManager.update_task_status
update_task_status(task_id, new_status, t2, w) ==
    LET i == get_task(tasks, task_id) IN
    /\ pc = "running"
    /\ IF i # 0
       THEN /\ tasks' = [tasks EXCEPT ![i] = update_status(tasks[i], new_status, now, t2)]
            /\ disk' = save_tasks(disk, tasks', next_id, w)
            /\ now' = t2
            /\ last' = Record("UpdateStatus", "true", save_tasks_exc(w), 1, w)
            /\ wfails' = IF w = "ok" THEN wfails ELSE wfails + 1
       ELSE /\ t2 = now /\ w = "ok"
            /\ last' = Record("UpdateStatus", "false", "none", 0, w)
            /\ UNCHANGED <<tasks, disk, now, wfails>>
    /\ UNCHANGED <<next_id, pc, issued>>

UpdateStatus ==
    \E task_id \in TaskIds, new_status \in Statuses, t2 \in Later(now) :
        /\ (new_status # "COMPLETED" => t2 = now)
        /\ update_task_status(task_id, new_status, t2, "ok")

UpdateStatusIO ==
    \E task_id \in TaskIds, new_status \in Statuses, t2 \in Later(now), w \in Outcomes :
        /\ (new_status # "COMPLETED" => t2 = now)
        /\ update_task_status(task_id, new_status, t2, w)

\* delete_task that hands the freed id back when the newest task is deleted.
delete_task_reuse(task_id, w) ==
    LET i == get_task(tasks, task_id) IN
    /\ pc = "running"
    /\ IF i # 0
       THEN /\ tasks' = RemoveAt(tasks, i)
            /\ next_id' = IF task_id = next_id - 1 THEN task_id ELSE next_id
            /\ disk' = save_tasks(disk, tasks', next_id', w)
            /\ last' = Record("Delete", "true", save_tasks_exc(w), 1, w)
            /\ wfails' = IF w = "ok" THEN wfails ELSE wfails + 1
       ELSE /\ w = "ok"
            /\ last' = Record("Delete", "false", "none", 0, w)
            /\ UNCHANGED <<tasks, next_id, disk, wfails>>
    /\ UNCHANGED <<now, pc, issued>>

\* TaskManager.delete_task
delete_task(task_id, w) ==
    LET i == get_task(tasks, task_id) IN
    /\ pc = "running"
    /\ IF i # 0
       THEN /\ tasks' = RemoveAt(tasks, i)
            /\ disk' = save_tasks(disk, tasks', next_id, w)
            /\ last' = Record("Delete", "true", save_tasks_exc(w), 1, w)
            /\ wfails' = IF w = "ok" THEN wfails ELSE wfails + 1
       ELSE /\ w = "ok"
            /\ last' = Record("Delete", "false", "none", 0, w)
            /\ UNCHANGED <<tasks, disk, wfails>>
    /\ UNCHANGED <<next_id, now, pc, issued>>

Delete == \E task_id \in TaskIds : delete_task(task_id, "ok")

DeleteIO == \E task_id \in TaskIds, w \in Outcomes : delete_task(task_id, w)

\* TaskManagerApp.clear_completed_tasks; confirm is the operator's answer.
clear_completed_tasks(confirm, w) ==
    /\ pc = "running"
    /\ IF \A i \in 1..Len(tasks) : tasks[i].status # "COMPLETED"
       THEN /\ confirm /\ w = "ok"
            /\ last' = Record("ClearCompleted", "nothing", "none", 0, w)
            /\ UNCHANGED <<tasks, disk, wfails>>
       ELSE IF confirm
       THEN /\ tasks' = FilterNotCompleted(tasks)
            /\ disk' = save_tasks(disk, tasks', next_id, w)
            /\ last' = Record("ClearCompleted", "cleared", save_tasks_exc(w), 1, w)
            /\ wfails' = IF w = "ok" THEN wfails ELSE wfails + 1
       ELSE /\ w = "ok"
            /\ last' = Record("ClearCompleted", "cancelled", "none", 0, w)
            /\ UNCHANGED <<tasks, disk, wfails>>
    /\ UNCHANGED <<next_id, now, pc, issued>>

ClearCompleted == \E confirm \in BOOLEAN : clear_completed_tasks(confirm, "ok")

ClearCompletedIO ==
    \E confirm \in BOOLEAN, w \in Outcomes : clear_completed_tasks(confirm, w)

\* reset_all_tasks that empties the list and leaves next_id as it is.
reset_all_tasks_keeps_next_id(confirm, w) ==
    /\ pc = "running"
    /\ IF tasks = <<>>
       THEN /\ confirm /\ w = "ok"
            /\ last' = Record("ResetAll", "nothing", "none", 0, w)
            /\ UNCHANGED <<tasks, next_id, disk, wfails>>
       ELSE IF confirm
       THEN /\ tasks' = <<>>
            /\ next_id' = next_id
            /\ disk' = save_tasks(disk, tasks', next_id', w)
            /\ last' = Record("ResetAll", "reset", save_tasks_exc(w), 1, w)
            /\ wfails' = IF w = "ok" THEN wfails ELSE wfails + 1
       ELSE /\ w = "ok"
            /\ last' = Record("ResetAll", "cancelled", "none", 0, w)
            /\ UNCHANGED <<tasks, next_id, disk, wfails>>
    /\ UNCHANGED <<now, pc, issued>>

\* TaskManagerApp.reset_all_tasks; confirm is whether 'DELETE ALL' was typed.
reset_all_tasks(confirm, w) ==
    /\ pc = "running"
    /\ IF tasks = <<>>
       THEN /\ confirm /\ w = "ok"
            /\ last' = Record("ResetAll", "nothing", "none", 0, w)
            /\ UNCHANGED <<tasks, next_id, disk, wfails>>
       ELSE IF confirm
       THEN /\ tasks' = <<>>
            /\ next_id' = 1
            /\ disk' = save_tasks(disk, tasks', next_id', w)
            /\ last' = Record("ResetAll", "reset", save_tasks_exc(w), 1, w)
            /\ wfails' = IF w = "ok" THEN wfails ELSE wfails + 1
       ELSE /\ w = "ok"
            /\ last' = Record("ResetAll", "cancelled", "none", 0, w)
            /\ UNCHANGED <<tasks, next_id, disk, wfails>>
    /\ UNCHANGED <<now, pc, issued>>

ResetAll == \E confirm \in BOOLEAN : reset_all_tasks(confirm, "ok")

ResetAllIO == \E confirm \in BOOLEAN, w \in Outcomes : reset_all_tasks(confirm, w)

\* The program is started, or ends and is started again:
\* TaskManager.__init__ on the file as it is.
Restart ==
    LET r == load_tasks(disk) IN
    /\ tasks' = r.tasks
    /\ next_id' = r.next_id
    /\ pc' = IF r.exc = "none" THEN "running" ELSE "crashed"
    /\ last' = Record("Load", "none", r.exc, 0, "ok")
    /\ UNCHANGED <<disk, now, issued, wfails>>

\* Time passes.
Tick ==
    /\ now < MaxClock
    /\ now' = now + 1
    /\ last' = Record("Tick", "none", "none", 0, "ok")
    /\ UNCHANGED <<tasks, next_id, disk, pc, issued, wfails>>

\* Every write of the file succeeds and the clock stands still.
Next == Add \/ UpdateStatus \/ Delete \/ ClearCompleted \/ ResetAll \/ Restart

Spec == Init /\ [][Next]_vars

\* The store driven by Add, UpdateStatus and Delete alone.
NextCore == Add \/ UpdateStatus \/ Delete

SpecCore == Init /\ [][NextCore]_vars

\* The clock runs from 0: between two readings, and between operations.
InitClock ==
    /\ disk = Absent
    /\ tasks = load_tasks(Absent).tasks
    /\ next_id = load_tasks(Absent).next_id
    /\ now = 0
    /\ pc = "running"
    /\ last = Record("Load", "none", "none", 0, "ok")
    /\ issued = {}
    /\ wfails = 0

NextClock ==
    AddClock \/ UpdateStatus \/ Delete \/ ClearCompleted \/ ResetAll \/ Restart \/ Tick

SpecClock == InitClock /\ [][NextClock]_vars

\* Writes of the file can fail; the clock stands still.
InitIO ==
    /\ disk = Absent
    /\ tasks = load_tasks(Absent).tasks
    /\ next_id = load_tasks(Absent).next_id
    /\ now = MaxClock
    /\ pc = "running"
    /\ last = Record("Load", "none", "none", 0, "ok")
    /\ issued = {}
    /\ wfails = 0

NextIO == AddIO \/ UpdateStatusIO \/ DeleteIO \/ ClearCompletedIO \/ ResetAllIO \/ Restart

SpecIO == InitIO /\ [][NextIO]_vars

\* The files a store can be constructed on: none, files that are no JSON
\* object, and objects with and without the keys and well-formed values.
SampleTask ==
    [NewTask("Report", "", "Work", "URGENT", <<"/", TRUE, 0>>, 0, 0) EXCEPT !.id = 1]

SampleDict == to_dict(SampleTask)

Without(d, k) == [x \in (DOMAIN d) \ {k} |-> d[x]]

LoadRecords ==
    { SampleDict,
      to_dict(update_status(SampleTask, "COMPLETED", 1, 1)),
      Without(SampleDict, "title"),
      Without(Without(SampleDict, "priority"), "status"),
      Without(Without(Without(SampleDict, "id"), "due_date"), "completed_at"),
      [SampleDict EXCEPT !["priority"] = "Bogus"],
      [SampleDict EXCEPT !["status"] = "Done"],
      [SampleDict EXCEPT !["created_at"] = GarbageText],
      [SampleDict EXCEPT !["due_date"] = GarbageText],
      [SampleDict EXCEPT !["completed_at"] = GarbageText] }

LoadFiles ==
    {Absent, Garbage, Undecodable, JsonArray, Unreadable, JsonObject([next_id |-> 3])}
    \cup {JsonObject([tasks |-> <<d>>, next_id |-> 2]) : d \in LoadRecords}
    \cup {JsonObject([tasks |-> <<SampleDict, [d EXCEPT !["title"] = "Other"]>>, next_id |-> 3]) :
            d \in {r \in LoadRecords : Has(r, "title")}}
    \cup {JsonObject([tasks |-> <<SampleDict>>])}

\* Any of these files is on disk and the program has not been started; the
\* clock reads MaxClock.
InitLoad ==
    /\ disk \in LoadFiles
    /\ tasks = <<>>
    /\ next_id = 1
    /\ now = MaxClock
    /\ pc = "stopped"
    /\ last = Record("none", "none", "none", 0, "ok")
    /\ issued = {}
    /\ wfails = 0

NextLoad == Restart \/ Add \/ UpdateStatus \/ Delete

SpecLoad == InitLoad /\ [][NextLoad]_vars

\* The store and its queries.  Tasks are added with and without a due date,
\* due before the clock's reading and at it; the clock stands still.
LaterInput ==
    [title |-> "Plan", description |-> "", category |-> "work",
     priority |-> "URGENT", due_date |-> <<"/", TRUE, MaxClock>>]

AddInputsQuery == {DefaultInput, DatedInput, LaterInput}

AddQuery ==
    /\ next_id <= MaxQueryId
    /\ \E inp \in AddInputsQuery, t2 \in Later(now) : add_task(inp, t2, "ok")

\* TaskManager.get_statistics; the dict is what the caller gets back, unless
\* the division raised.
Statistics ==
    LET stats == get_statistics(tasks, now) IN
    /\ pc = "running"
    /\ last' = [Record("Statistics", "none",
                       IF stats.completion_rate[2] = 0 THEN "ZeroDivisionError" ELSE "none",
                       0, "ok") EXCEPT !.ret = stats]
    /\ UNCHANGED <<tasks, next_id, disk, now, pc, issued, wfails>>

\* TaskManager.get_overdue_tasks; the list is what the caller gets back.
Overdue ==
    /\ pc = "running"
    /\ last' = [Record("Overdue", "none", "none", 0, "ok")
                    EXCEPT !.ret = get_overdue_tasks(tasks, now)]
    /\ UNCHANGED <<tasks, next_id, disk, now, pc, issued, wfails>>

NextQuery == AddQuery \/ UpdateStatus \/ Delete \/ Statistics \/ Overdue

SpecQuery == Init /\ [][NextQuery]_vars

\* The store and its listings.  Tasks of four priorities are added, with
\* and without due date, in categories written in different case.
UndatedInput ==
    [title |-> "Call", description |-> "", category |-> "WORK",
     priority |-> "URGENT", due_date |-> NoText]

LowInput ==
    [title |-> "Tidy", description |-> "", category |-> "General",
     priority |-> "LOW", due_date |-> NoText]

HighInput ==
    [title |-> "Pay", description |-> "", category |-> "general",
     priority |-> "HIGH", due_date |-> <<"-", TRUE, 0>>]

AddInputsView ==
    {DefaultInput, DatedInput, LaterInput, UndatedInput, LowInput, HighInput}

AddView ==
    /\ next_id <= MaxViewId
    /\ \E inp \in AddInputsView, t2 \in Later(now) : add_task(inp, t2, "ok")

\* TaskManagerApp.view_all_tasks; what is listed is what the caller gets.
ViewAll ==
    /\ pc = "running"
    /\ last' = [Record("ViewAll", "none", "none", 0, "ok")
                    EXCEPT !.ret = IF tasks = <<>> THEN <<>> ELSE sorted(tasks)]
    /\ UNCHANGED <<tasks, next_id, disk, now, pc, issued, wfails>>

\* TaskManager.get_tasks_by_category(category); the list is what the caller
\* gets back.
ByCategory(category) ==
    /\ pc = "running"
    /\ last' = [Record("ByCategory", "none", "none", 0, "ok")
                    EXCEPT !.ret = get_tasks_by_category(tasks, category)]
    /\ UNCHANGED <<tasks, next_id, disk, now, pc, issued, wfails>>

FilterByCategory == \E category \in Categories : ByCategory(category)

NextView == AddView \/ Delete \/ ViewAll \/ FilterByCategory

SpecView == Init /\ [][NextView]_vars

\* The store with its export and its backup; writes of any file can fail.
AddExport ==
    /\ next_id <= MaxExportId
    /\ \E inp \in AddInputs, t2 \in Later(now), w \in Outcomes : add_task(inp, t2, w)

\* TaskManagerApp.export_tasks; t2 is the second reading of the clock, w the
\* outcome of the write.  What the caller observes is the file written.
export_tasks(t2, w) ==
    LET name == ExportName(now)
        data == [exported_at |-> isoformat(t2),
                 total_tasks |-> Len(tasks),
                 tasks |-> [i \in 1..Len(tasks) |-> to_dict(tasks[i])]]
        written == CASE w = "ok" -> JsonObject(data)
                     [] w = "open_fails" -> Absent
                     [] w = "write_fails" -> Garbage
    IN  /\ pc = "running"
        /\ disk' = IF w = "open_fails" THEN disk ELSE AfterWrite(disk, name, written)
        /\ now' = t2
        /\ last' = [Record("Export", "none",
                           IF SaveRaises(w) \in Exceptions THEN "none" ELSE SaveRaises(w),
                           0, w)
                        EXCEPT !.ret = [name |-> name, file |-> written]]
        /\ UNCHANGED <<tasks, next_id, pc, issued, wfails>>

Export == \E t2 \in Later(now), w \in WriteOutcomes : export_tasks(t2, w)

\* TaskManagerApp.backup_tasks: shutil.copy2 of the file of the store, which
\* raises FileNotFoundError when there is none.
backup_tasks(w) ==
    LET name == BackupName(now)
        raised == IF disk.kind = "absent" THEN "FileNotFoundError" ELSE SaveRaises(w)
        written == CASE disk.kind = "absent" \/ w = "open_fails" -> Absent
                     [] w = "ok" -> disk
                     [] w = "write_fails" -> Garbage
    IN  /\ pc = "running"
        /\ disk' = IF written = Absent THEN disk ELSE AfterWrite(disk, name, written)
        /\ last' = [Record("Backup", "none",
                           IF raised \in Exceptions THEN "none" ELSE raised, 0, w)
                        EXCEPT !.ret = [name |-> name, file |-> written]]
        /\ UNCHANGED <<tasks, next_id, now, pc, issued, wfails>>

Backup == \E w \in WriteOutcomes : backup_tasks(w)

NextExport == AddExport \/ UpdateStatusIO \/ DeleteIO \/ Export \/ Backup

SpecExport == InitIO /\ [][NextExport]_vars

\* Task.to_dict and Task.from_dict on their own: a task of any priority and
\* status, with and without id, due date and completion time, is converted
\* to a dict, and the dict back to a Task.
OptionalDates == {None} \cup (0..MaxClock)

CodecTasks ==
    {[id |-> i, title |-> "Report", description |-> "", category |-> "Work",
      priority |-> p, status |-> s, created_at |-> 0, updated_at |-> MaxClock,
      due_date |-> d, completed_at |-> c] :
        i \in {None, 1}, p \in Priorities, s \in Statuses,
        d \in OptionalDates, c \in OptionalDates}

InitCodec ==
    /\ tasks \in {<<t>> : t \in CodecTasks}
    /\ next_id = 1
    /\ disk = Absent
    /\ now = MaxClock
    /\ pc = "stopped"
    /\ last = Record("none", "none", "none", 0, "ok")
    /\ issued = {}
    /\ wfails = 0

\* task.to_dict(); the dict is what the caller gets back.
ToDict ==
    /\ last.op = "none"
    /\ last' = [Record("to_dict", "none", "none", 0, "ok") EXCEPT !.ret = to_dict(tasks[1])]
    /\ UNCHANGED <<tasks, next_id, disk, now, pc, issued, wfails>>

\* Task.from_dict(data) on the dict returned before; the Task is what the
\* caller gets back, unless an exception is.
FromDict ==
    /\ last.op = "to_dict"
    /\ last' = [Record("from_dict", "none", from_dict_exc(last.ret), 0, "ok")
                    EXCEPT !.ret = IF from_dict_exc(last.ret) = "none"
                                   THEN from_dict(last.ret) ELSE "none"]
    /\ UNCHANGED <<tasks, next_id, disk, now, pc, issued, wfails>>

NextCodec == ToDict \/ FromDict

SpecCodec == InitCodec /\ [][NextCodec]_vars

\* ================================================================== claims
Ids(ts) == {ts[i].id : i \in 1..Len(ts)}

HasId(ts, task_id) == \E i \in 1..Len(ts) : ts[i].id = task_id

\* The task of ts with the given id (ids are unique where this is used).
TaskWith(ts, task_id) == ts[CHOOSE i \in 1..Len(ts) : ts[i].id = task_id]

\* The file holds exactly the serialization of the sequence ts, in order,
\* and the counter nid.
DiskHolds(file, ts, nid) ==
    /\ file.kind = "object"
    /\ DOMAIN file.data = {"tasks", "next_id"}
    /\ file.data["next_id"] = nid
    /\ Len(file.data["tasks"]) = Len(ts)
    /\ \A i \in 1..Len(ts) : file.data["tasks"][i] = to_dict(ts[i])

\* C1: with Add, UpdateStatus and Delete alone, the id an Add assigns is
\* greater than every id any earlier Add has issued, deleted ones included.
C1_IdsNeverReused ==
    [][last'.op = "Add" =>
        /\ last'.task = tasks'[Len(tasks')].id
        /\ \A i \in issued : last'.task > i]_vars

\* An Add has assigned an id while an id issued earlier is no longer in the store.
C1_Witness ==
    /\ last.op = "Add"
    /\ \E i \in issued : i < last.task /\ ~HasId(tasks, i)

\* C2: every task in the store has a positive integer id and no two tasks
\* have the same id.
C2_UniquePositiveIds ==
    /\ \A i \in 1..Len(tasks) : tasks[i].id \in Nat /\ tasks[i].id >= 1
    /\ \A i, j \in 1..Len(tasks) : tasks[i].id = tasks[j].id => i = j

\* A restarted store that holds three tasks.
C2_Witness == last.op = "Load" /\ Len(tasks) = 3

\* C3: Add appends one task at the end, with id the pre-call next_id and
\* status Pending, adds 1 to next_id, leaves the stored tasks as they were,
\* returns the new task and rewrites the file once.
C3_AddAppends ==
    [][last'.op = "Add" =>
        /\ Len(tasks') = Len(tasks) + 1
        /\ SubSeq(tasks', 1, Len(tasks)) = tasks
        /\ tasks'[Len(tasks')].id = next_id
        /\ tasks'[Len(tasks')].status = "PENDING"
        /\ next_id' = next_id + 1
        /\ last'.ret = "task" /\ last'.task = next_id /\ last'.exc = "none"
        /\ last'.saves = 1
        /\ DiskHolds(disk', tasks', next_id')]_vars

\* An Add into a store that already held two tasks.
C3_Witness == last.op = "Add" /\ Len(tasks) = 3

\* In C4 to C6 a step is an UpdateStatus(task_id, new_status) or a
\* Delete(task_id) when it satisfies the action of that call; the last
\* reading of the clock in the call is the clock after the step.

\* C4: UpdateStatus returns true iff a task has the id; then that task has
\* the new status and the file is rewritten; otherwise it returns false,
\* raises nothing and changes neither the tasks, next_id nor the file.
C4_Post(task_id, new_status) ==
    /\ last'.op = "UpdateStatus" /\ last'.exc = "none"
    /\ last'.ret = IF HasId(tasks, task_id) THEN "true" ELSE "false"
    /\ next_id' = next_id
    /\ IF HasId(tasks, task_id)
       THEN /\ Ids(tasks') = Ids(tasks) /\ Len(tasks') = Len(tasks)
            /\ TaskWith(tasks', task_id).status = new_status
            /\ last'.saves = 1
            /\ DiskHolds(disk', tasks', next_id')
       ELSE /\ tasks' = tasks /\ disk' = disk /\ last'.saves = 0

C4_UpdateStatus ==
    [][last'.op = "UpdateStatus" =>
        \A task_id \in TaskIds, new_status \in Statuses :
            update_task_status(task_id, new_status, now', "ok")
                => C4_Post(task_id, new_status)]_vars

\* An UpdateStatus that found no task, in a store that holds tasks.
C4_Witness == last.op = "UpdateStatus" /\ last.ret = "false" /\ Len(tasks) >= 1

\* C5: Delete returns true iff a task had the id; then exactly that task is
\* gone, the others keep their order, the file is rewritten and next_id is
\* as it was; otherwise it returns false and changes nothing.
C5_Post(task_id) ==
    LET Keep(t) == t.id # task_id IN
    /\ last'.op = "Delete" /\ last'.exc = "none"
    /\ last'.ret = IF HasId(tasks, task_id) THEN "true" ELSE "false"
    /\ next_id' = next_id
    /\ IF HasId(tasks, task_id)
       THEN /\ tasks' = SelectSeq(tasks, Keep)
            /\ Len(tasks') = Len(tasks) - 1
            /\ last'.saves = 1
            /\ DiskHolds(disk', tasks', next_id')
       ELSE /\ tasks' = tasks /\ disk' = disk /\ last'.saves = 0

C5_Delete ==
    [][last'.op = "Delete" =>
        \A task_id \in TaskIds : delete_task(task_id, "ok") => C5_Post(task_id)]_vars

\* A Delete has removed a task that was not the last one: two tasks remain
\* and the id removed lies below the id of the last.
C5_Witness ==
    /\ last.op = "Delete" /\ last.ret = "true"
    /\ Len(tasks) = 2 /\ next_id = 4
    /\ tasks[2].id = 3

\* C6: a transition sets completed_at to the current time iff the new status
\* is Completed and otherwise keeps it; it sets status and refreshes
\* updated_at to the current time.
C6_Post(task_id, new_status) ==
    HasId(tasks, task_id) =>
        LET old == TaskWith(tasks, task_id)
            new == TaskWith(tasks', task_id)
        IN  /\ new.status = new_status
            /\ new.updated_at \in now..now'
            /\ IF new_status = "COMPLETED"
               THEN new.completed_at \in now..now'
               ELSE new.completed_at = old.completed_at
            /\ new.created_at = old.created_at

C6_Transition ==
    [][last'.op = "UpdateStatus" =>
        \A task_id \in TaskIds, new_status \in Statuses :
            update_task_status(task_id, new_status, now', "ok")
                => C6_Post(task_id, new_status)]_vars

\* A task was moved away from Completed at a later time and keeps completed_at.
C6_Witness ==
    /\ last.op = "UpdateStatus" /\ last.ret = "true"
    /\ \E i \in 1..Len(tasks) :
        /\ tasks[i].status # "COMPLETED"
        /\ tasks[i].completed_at # None
        /\ tasks[i].updated_at > tasks[i].completed_at

\* The operation named by last performed its change of the store.
Changed ==
    \/ last.op = "Add"
    \/ last.op \in {"UpdateStatus", "Delete"} /\ last.ret = "true"
    \/ last.op = "ClearCompleted" /\ last.ret = "cleared"
    \/ last.op = "ResetAll" /\ last.ret = "reset"

\* The operation named by last returned, and was not called off by the operator.
Returned ==
    \/ Changed
    \/ last.op \in {"ClearCompleted", "ResetAll"} /\ last.ret = "nothing"

\* C7 as stated: whenever Add, a successful UpdateStatus, a successful
\* Delete, ClearCompleted or ResetAll returns and the write did not fail, the
\* file holds the serialization of the tasks, in order, and next_id.
C7_Original == (Returned /\ ~last.wfail) => DiskHolds(disk, tasks, next_id)

\* C7, amended: the same for Add, a successful UpdateStatus or Delete, a
\* ClearCompleted that found Completed tasks and a ResetAll of a store that
\* held tasks.
C7_RewriteAfterChange == (Changed /\ ~last.wfail) => DiskHolds(disk, tasks, next_id)

\* A ClearCompleted rewrote the file after an earlier write had failed.
C7_Witness ==
    /\ last.op = "ClearCompleted" /\ last.ret = "cleared" /\ ~last.wfail
    /\ wfails = 1 /\ Len(tasks) >= 1

\* C8: a store constructed on the file that holds what save_tasks wrote for
\* the current state has the same tasks, in order and field for field, and
\* the same next_id.
C8_SaveLoadIdentity ==
    [][(last'.op = "Load" /\ DiskHolds(disk, tasks, next_id)) =>
        /\ tasks' = tasks
        /\ next_id' = next_id
        /\ last'.exc = "none" /\ pc' = "running"]_vars

\* A restart, after a write had failed and a later one succeeded, kept a
\* completed task and a next_id above the id of a task deleted before it.
C8_Witness ==
    /\ last.op = "Load" /\ DiskHolds(disk, tasks, next_id)
    /\ wfails = 1
    /\ Len(tasks) = 1 /\ tasks[1].id = 1 /\ next_id = 3
    /\ tasks[1].completed_at # None /\ tasks[1].status = "COMPLETED"

LoadFellBack ==
    /\ last.exc = "none" /\ pc = "running"
    /\ tasks = <<>> /\ next_id = 1

\* C9 as stated: constructed on a file that is absent, is no parseable
\* document or lacks the tasks array, the store is returned, empty and with
\* next_id 1.
C9_LoadRecovers ==
    (/\ last.op = "Load"
     /\ \/ disk.kind \in {"absent", "garbage", "undecodable", "array"}
        \/ disk.kind = "object" /\ ~Has(disk.data, "tasks"))
    => LoadFellBack

MalformedValue(d) ==
    \/ Has(d, "priority") /\ PriorityOf(d["priority"]) = "ValueError"
    \/ Has(d, "status") /\ StatusOf(d["status"]) = "ValueError"
    \/ \E k \in {"created_at", "updated_at", "due_date", "completed_at"} :
        Has(d, k) /\ d[k] # NullText /\ ~IsIsoText(d[k])

\* C10 as stated: constructed on a document with a task record that has a
\* malformed priority, status or timestamp, the store is returned, empty and
\* with next_id 1.
C10_MalformedRecovered ==
    (/\ last.op = "Load"
     /\ disk.kind = "object" /\ Has(disk.data, "tasks")
     /\ \E i \in 1..Len(disk.data["tasks"]) : MalformedValue(disk.data["tasks"][i]))
    => LoadFellBack

\* C11 as stated: constructed on a file that exists but cannot be opened or
\* read, the store is returned, empty and with next_id 1.
C11_ReadFailureRecovered ==
    (last.op = "Load" /\ disk.kind = "unreadable") => LoadFellBack

\* C12: when the write of the file fails in Add, UpdateStatus, Delete,
\* ClearCompleted or ResetAll, no exception reaches the caller, the program
\* goes on, the operation returns its normal result, and the tasks and
\* next_id in memory are those the operation produces when the write succeeds.
C12_WriteFailureHarmless ==
    [][last'.wfail =>
        /\ last'.exc = "none" /\ pc' = "running"
        /\ last'.op \in {"Add", "UpdateStatus", "Delete", "ClearCompleted", "ResetAll"}
        /\ last'.op = "Add" =>
            /\ last'.ret = "task" /\ last'.task = next_id
            /\ next_id' = next_id + 1
            /\ Len(tasks') = Len(tasks) + 1
            /\ SubSeq(tasks', 1, Len(tasks)) = tasks
            /\ tasks'[Len(tasks')].id = next_id
            /\ tasks'[Len(tasks')].status = "PENDING"
        /\ last'.op = "UpdateStatus" =>
            /\ last'.ret = "true" /\ next_id' = next_id
            /\ \E task_id \in Ids(tasks), new_status \in Statuses :
                tasks' = [tasks EXCEPT ![get_task(tasks, task_id)] =
                            update_status(@, new_status, now, now')]
        /\ last'.op = "Delete" =>
            /\ last'.ret = "true" /\ next_id' = next_id
            /\ \E task_id \in Ids(tasks) :
                tasks' = SelectSeq(tasks, LAMBDA t : t.id # task_id)
        /\ last'.op = "ClearCompleted" =>
            /\ last'.ret = "cleared" /\ next_id' = next_id
            /\ tasks' = SelectSeq(tasks, LAMBDA t : t.status # "COMPLETED")
        /\ last'.op = "ResetAll" =>
            /\ last'.ret = "reset" /\ next_id' = 1 /\ tasks' = <<>>]_vars

\* A Delete whose write could not open the file: the task is gone from
\* memory and the file still holds both tasks.
C12_Witness ==
    /\ last.op = "Delete" /\ last.wfail /\ last.ret = "true"
    /\ Len(tasks) = 1
    /\ disk.kind = "object" /\ Len(disk.data["tasks"]) = 2

\* C13: from_dict(to_dict(t)) raises nothing and equals t in id, title,
\* description, category, priority, status, created_at, updated_at, due_date
\* and completed_at, for every priority and status and with due_date and
\* completed_at each set or absent.
C13_RoundTrip ==
    last.op = "from_dict" =>
        /\ last.exc = "none"
        /\ DOMAIN last.ret = DOMAIN tasks[1]
        /\ \A f \in DOMAIN tasks[1] : last.ret[f] = tasks[1][f]

\* A cancelled task of low priority without due date that was once
\* completed has made the round trip.
C13_Witness ==
    /\ last.op = "from_dict"
    /\ tasks[1].status = "CANCELLED" /\ tasks[1].priority = "LOW"
    /\ tasks[1].due_date = None /\ tasks[1].completed_at # None

\* C14 as stated, in what it says of the store: a ResetAll that the operator
\* did not call off, in whatever state, leaves no tasks and next_id 1.
C14_Original ==
    (last.op = "ResetAll" /\ last.ret # "cancelled") => (tasks = <<>> /\ next_id = 1)

Fresh == tasks = <<>> /\ next_id = 1

\* C14, amended: a confirmed ResetAll of a store that holds tasks leaves no
\* tasks and next_id 1 and writes the file once (which then holds the empty
\* store, unless the write failed); any other ResetAll changes nothing and
\* writes nothing.  From the store a reset leaves, the next Add is assigned
\* id 1: no operation but Add, and no restart on the file just written,
\* changes the empty store with next_id 1.
C14_ResetAll ==
    [][/\ (last'.op = "ResetAll" /\ tasks # <<>> /\ last'.ret # "cancelled") =>
            /\ last'.ret = "reset" /\ last'.exc = "none"
            /\ Fresh'
            /\ last'.saves = 1
            /\ ~last'.wfail => DiskHolds(disk', <<>>, 1)
       /\ (last'.op = "ResetAll" /\ (tasks = <<>> \/ last'.ret = "cancelled")) =>
            /\ UNCHANGED <<tasks, next_id, disk>>
            /\ last'.saves = 0
       /\ (Fresh /\ last'.op = "Add") => last'.task = 1 /\ tasks'[1].id = 1
       /\ (Fresh /\ last'.op \notin {"Add", "Load"}) => Fresh' /\ disk' = disk
       /\ (Fresh /\ last'.op = "Load" /\ DiskHolds(disk, <<>>, 1)) => Fresh']_vars

\* After ids 1 and 2 had been issued and the store was reset, an Add has
\* been assigned id 1.
C14_Witness ==
    /\ last.op = "Add" /\ last.task = 1
    /\ issued = {1, 2} /\ Len(tasks) = 1

SomeCompleted(ts) == \E i \in 1..Len(ts) : ts[i].status = "COMPLETED"

\* C15 as stated: after a ClearCompleted that the operator did not call off
\* no task is Completed, the tasks that were not Completed are there as
\* they were and in their order, next_id is as it was, and the file has been
\* written exactly once.
C15_Original ==
    [][(last'.op = "ClearCompleted" /\ last'.ret # "cancelled") =>
        /\ ~SomeCompleted(tasks')
        /\ tasks' = SelectSeq(tasks, LAMBDA t : t.status # "COMPLETED")
        /\ next_id' = next_id
        /\ last'.saves = 1]_vars

\* C15, amended: a confirmed ClearCompleted of a store with a Completed task
\* does all of that (the file then holds the remaining tasks unless the
\* write failed); any other ClearCompleted changes nothing and writes
\* nothing.
C15_ClearCompleted ==
    [][/\ (last'.op = "ClearCompleted" /\ SomeCompleted(tasks) /\ last'.ret # "cancelled") =>
            /\ last'.ret = "cleared" /\ last'.exc = "none"
            /\ ~SomeCompleted(tasks')
            /\ tasks' = SelectSeq(tasks, LAMBDA t : t.status # "COMPLETED")
            /\ next_id' = next_id
            /\ last'.saves = 1
            /\ ~last'.wfail => DiskHolds(disk', tasks', next_id')
       /\ (last'.op = "ClearCompleted" /\ (~SomeCompleted(tasks) \/ last'.ret = "cancelled")) =>
            /\ UNCHANGED <<tasks, next_id, disk>>
            /\ last'.saves = 0]_vars

\* A ClearCompleted removed the first task and kept the second, which is
\* cancelled.
C15_Witness ==
    /\ last.op = "ClearCompleted" /\ last.ret = "cleared"
    /\ Len(tasks) = 1 /\ tasks[1].id = 2 /\ tasks[1].status = "CANCELLED"

Count(ts, P(_)) == Cardinality({i \in 1..Len(ts) : P(ts[i])})

\* C16: get_statistics raises nothing and returns total = the number of
\* tasks, completed, pending and in_progress = the number of tasks with that
\* status, overdue = the number of tasks that are overdue, and
\* completion_rate = completed / total * 100, or 0 when there are no tasks.
C16_Statistics ==
    last.op = "Statistics" =>
        LET stats == last.ret
            rate == stats.completion_rate
        IN  /\ last.exc = "none"
            /\ stats.total = Len(tasks)
            /\ stats.completed = Count(tasks, LAMBDA t : t.status = "COMPLETED")
            /\ stats.pending = Count(tasks, LAMBDA t : t.status = "PENDING")
            /\ stats.in_progress = Count(tasks, LAMBDA t : t.status = "IN_PROGRESS")
            /\ stats.overdue = Count(tasks, LAMBDA t : is_overdue(t, now))
            /\ rate[2] # 0
            /\ IF tasks = <<>> THEN rate[1] = 0
               ELSE rate[1] * stats.total = 100 * stats.completed * rate[2]

\* The statistics of two tasks, one completed, the other cancelled and
\* overdue: a rate of one half.
C16_Witness ==
    /\ last.op = "Statistics"
    /\ last.ret.total = 2 /\ last.ret.completed = 1
    /\ last.ret.pending = 0 /\ last.ret.in_progress = 0
    /\ last.ret.overdue = 1

\* Overdue as the specification defines it.
DueAndOpen(task, t) ==
    /\ task.due_date # None
    /\ t > task.due_date
    /\ task.status # "COMPLETED"

\* C17: is_overdue is (due date present, now > due date, status not
\* Completed) for every task of the store, and get_overdue_tasks returns the
\* tasks for which that holds, in order; an UpdateStatus that completes an
\* overdue task leaves it not overdue, and one that moves a task with a past
\* due date away from Completed leaves it overdue.
C17_IsOverdue ==
    [][/\ \A i \in 1..Len(tasks') :
            is_overdue(tasks'[i], now') = DueAndOpen(tasks'[i], now')
       /\ last'.op = "Overdue" =>
            last'.ret = SelectSeq(tasks', LAMBDA t : DueAndOpen(t, now'))
       /\ (last'.op = "UpdateStatus" /\ last'.ret = "true") =>
            \A i \in 1..Len(tasks) :
                /\ (is_overdue(tasks[i], now) /\ tasks'[i].status = "COMPLETED")
                        => ~is_overdue(tasks'[i], now')
                /\ (/\ tasks[i].status = "COMPLETED" /\ tasks'[i].status # "COMPLETED"
                    /\ tasks[i].due_date # None /\ now' > tasks[i].due_date)
                        => is_overdue(tasks'[i], now')]_vars

\* Of two tasks due in the past, the completed one is not returned as
\* overdue and the one that was completed once and is now cancelled is.
C17_Witness ==
    /\ last.op = "Overdue"
    /\ Len(tasks) = 2
    /\ tasks[1].status = "COMPLETED" /\ tasks[1].due_date # None
    /\ now > tasks[1].due_date
    /\ tasks[2].status = "CANCELLED" /\ tasks[2].completed_at # None
    /\ last.ret = <<tasks[2]>>

\* The order of the labels as the specification gives it.
LabelRank == [HIGH |-> 1, LOW |-> 2, MEDIUM |-> 3, URGENT |-> 4]

\* a may stand before b in the listing.
InListingOrder(a, b) ==
    \/ LabelRank[a.priority] < LabelRank[b.priority]
    \/ /\ a.priority = b.priority
       /\ \/ b.due_date = None
          \/ a.due_date # None /\ a.due_date <= b.due_date

\* C18: the full listing holds the tasks of the store, each once, ordered
\* by priority label (High < Low < Medium < Urgent) and, within a priority,
\* by due date with the tasks without due date last; the store keeps its
\* order.
C18_ListingOrder ==
    [][last'.op = "ViewAll" =>
        LET listing == last'.ret IN
        /\ Len(listing) = Len(tasks)
        /\ {listing[i] : i \in 1..Len(listing)} = {tasks[i] : i \in 1..Len(tasks)}
        /\ \A i, j \in 1..Len(listing) : i < j => InListingOrder(listing[i], listing[j])
        /\ tasks' = tasks]_vars

\* A listing of three tasks: the low one first, then the urgent one with a
\* due date, then the urgent one without, which is first in the store.
C18_Witness ==
    /\ last.op = "ViewAll" /\ Len(tasks) = 3
    /\ last.ret[1].priority = "LOW"
    /\ last.ret[2].priority = "URGENT" /\ last.ret[2].due_date # None
    /\ last.ret[3].priority = "URGENT" /\ last.ret[3].due_date = None
    /\ tasks[1] = last.ret[3]

\* Two labels are the same but for the case of their letters.
SameLetter(x, y) ==
    \/ x = y
    \/ x \in 65..90 /\ y = x + 32
    \/ y \in 65..90 /\ x = y + 32

SameLabel(a, b) ==
    LET ca == CategoryChars[a]
        cb == CategoryChars[b]
    IN  /\ Len(ca) = Len(cb)
        /\ \A i \in 1..Len(ca) : SameLetter(ca[i], cb[i])

\* C19: get_tasks_by_category(c) returns the tasks whose category is c but
\* for the case of its letters, in the order of the store, and nothing
\* else; a label that differs from c only in case selects the same tasks.
C19_Post(category) ==
    /\ last'.ret = SelectSeq(tasks, LAMBDA t : SameLabel(t.category, category))
    /\ \A other \in Categories :
        SameLabel(other, category) => get_tasks_by_category(tasks, other) = last'.ret
    /\ tasks' = tasks

C19_FilterByCategory ==
    [][last'.op = "ByCategory" =>
        \A category \in Categories : ByCategory(category) => C19_Post(category)]_vars

\* Of three tasks, the filter returned two whose categories are written
\* differently.
C19_Witness ==
    /\ last.op = "ByCategory" /\ Len(tasks) = 3
    /\ Len(last.ret) = 2
    /\ last.ret[1].category # last.ret[2].category

\* C20: export_tasks and backup_tasks, whether the write succeeds or fails,
\* raise nothing and leave the tasks, next_id and the file of the store as
\* they were; the task array of an export that was written is the
\* serialization of the tasks, in order.
C20_ExportBackupFrame ==
    [][last'.op \in {"Export", "Backup"} =>
        /\ tasks' = tasks /\ next_id' = next_id /\ disk' = disk
        /\ last'.exc = "none" /\ pc' = "running"
        /\ (last'.op = "Export" /\ last'.ret.file.kind = "object") =>
            /\ Len(last'.ret.file.data["tasks"]) = Len(tasks)
            /\ \A i \in 1..Len(tasks) : last'.ret.file.data["tasks"][i] = to_dict(tasks[i])
            /\ last'.ret.file.data["total_tasks"] = Len(tasks)]_vars

\* An export of two tasks was written while the file of the store is cut
\* off by a failed write.
C20_Witness ==
    /\ last.op = "Export" /\ last.ret.file.kind = "object"
    /\ Len(last.ret.file.data["tasks"]) = 2 /\ Len(tasks) = 2
    /\ disk = Garbage

\* C21 as stated: constructed on a document that has the tasks array and no
\* next_id, the store is returned, empty and with next_id 1; and no Add is
\* assigned an id that a task of the store has.
C21_MissingNextIdFallsBack ==
    [][/\ (/\ last'.op = "Load"
           /\ disk.kind = "object"
           /\ Has(disk.data, "tasks") /\ ~Has(disk.data, "next_id"))
          => LoadFellBack'
       /\ last'.op = "Add" => ~HasId(tasks, last'.task)]_vars

\* C22: in every state reached from the store constructed without a file,
\* by Add, UpdateStatus, Delete, ClearCompleted, ResetAll and restarts,
\* with writes that succeed or fail, next_id is at least 1 and greater than
\* the id of every task in the store.
C22_NextIdAboveIds ==
    /\ next_id \in Nat /\ next_id >= 1
    /\ \A i \in 1..Len(tasks) : tasks[i].id < next_id

\* A restarted store whose only task has id 1 while next_id is 3.
C22_Witness ==
    /\ last.op = "Load" /\ pc = "running"
    /\ Len(tasks) = 1 /\ tasks[1].id = 1
    /\ next_id = 3

\* C23: in every state reached from the store constructed without a file,
\* every Completed task has completed_at set; and completed_at is set only
\* for a task that has been moved to Completed: a task that has it after a
\* step had it before, or the step is an UpdateStatus that left it Completed
\* (so a task added, and never so moved, has none).  The converse of the
\* first part fails in the state C23_Witness describes.
C23_CompletedAt ==
    [][/\ \A i \in 1..Len(tasks') :
            tasks'[i].status = "COMPLETED" => tasks'[i].completed_at # None
       /\ \A i \in 1..Len(tasks') :
            tasks'[i].completed_at # None =>
                \/ \E j \in 1..Len(tasks) :
                        /\ tasks[j].id = tasks'[i].id
                        /\ tasks[j].completed_at # None
                \/ last'.op = "UpdateStatus" /\ tasks'[i].status = "COMPLETED"]_vars

\* A task that was completed has been moved back to Pending and keeps its
\* completed_at, beside a task that was never completed and has none.
C23_Witness ==
    /\ last.op = "UpdateStatus" /\ Len(tasks) = 2
    /\ tasks[1].status = "PENDING" /\ tasks[1].completed_at # None
    /\ tasks[2].status = "CANCELLED" /\ tasks[2].completed_at = None
====
